---- MODULE Spec2Model ----
(***************************************************************************)
(* SCPI Command Sender: the GUI (SCPIGUI), its instrument connection       *)
(* (SCPIInstrument) and the background sequence worker (SCPIWorker) of     *)
(* src/scpi_app/gui/scpi_gui.py, as a state machine.                       *)
(*                                                                         *)
(* Text values (host, commands) are tuples of one-character strings so     *)
(* that split / strip / endswith are computed as the code computes them.   *)
(***************************************************************************)
EXTENDS Integers, Sequences, FiniteSets, TLC

(***************************************************************************)
(* Bounds of the exploration.                                              *)
(***************************************************************************)
MaxCmds == 1        \* longest command list built with add_command
MaxRepeat == 1      \* largest repeat typed into repeat_input (widget: 1..1000)
MaxThreads == 2     \* SCPIWorker thread objects alive at a time
MaxHostParts == 4   \* most dot-separated parts of a generated host text
MaxRunEdits == 1    \* edits of the list or repeat explored while a run is in flight
MaxSocks == 3       \* socket objects created through direct calls of connect()
MaxSends == 3       \* commands written on one connection through send_command()
MaxPresetOps == 3   \* preset operations (save, select, load, restart) in a row

(***************************************************************************)
(* Text helpers: Python str methods on tuples of characters.               *)
(***************************************************************************)
Digits == {"0", "1", "2", "3", "4", "5", "6", "7", "8", "9"}

DigitVal(c) ==
  CASE c = "0" -> 0 [] c = "1" -> 1 [] c = "2" -> 2 [] c = "3" -> 3
    [] c = "4" -> 4 [] c = "5" -> 5 [] c = "6" -> 6 [] c = "7" -> 7
    [] c = "8" -> 8 [] c = "9" -> 9

Whitespace == {" "}

\* str.split('.'): every '.' separates; "" splits to [""]
RECURSIVE SplitAcc(_, _, _)
SplitAcc(s, cur, acc) ==
  IF s = <<>> THEN Append(acc, cur)
  ELSE IF Head(s) = "." THEN SplitAcc(Tail(s), <<>>, Append(acc, cur))
  ELSE SplitAcc(Tail(s), Append(cur, Head(s)), acc)

split(s) == SplitAcc(s, <<>>, <<>>)

\* str.isdigit(): non-empty and every character a digit
isdigit(p) == p # <<>> /\ \A i \in 1..Len(p) : p[i] \in Digits

\* int(p) for a digit string
RECURSIVE IntAcc(_, _)
IntAcc(p, acc) ==
  IF p = <<>> THEN acc ELSE IntAcc(Tail(p), 10 * acc + DigitVal(Head(p)))

int(p) == IntAcc(p, 0)

\* str.strip(): remove leading and trailing whitespace
RECURSIVE lstrip(_)
lstrip(s) ==
  IF s # <<>> /\ Head(s) \in Whitespace THEN lstrip(Tail(s)) ELSE s

RECURSIVE rstrip(_)
rstrip(s) ==
  IF s # <<>> /\ s[Len(s)] \in Whitespace
  THEN rstrip(SubSeq(s, 1, Len(s) - 1)) ELSE s

strip(s) == rstrip(lstrip(s))

\* command.endswith('?')
endswith_q(command) == command # <<>> /\ command[Len(command)] = "?"

(***************************************************************************)
(* SCPIGUI.is_valid_ip                                                     *)
(***************************************************************************)
is_valid_ip_no_range(ip_str) ==
  LET parts == split(ip_str) IN
    IF Len(parts) # 4 THEN FALSE
    ELSE \A i \in 1..4 : isdigit(parts[i])

is_valid_ip(ip_str) ==
  LET parts == split(ip_str) IN
    IF Len(parts) # 4 THEN FALSE
    ELSE \A i \in 1..4 :
           /\ isdigit(parts[i])
           /\ ~(int(parts[i]) < 0 \/ int(parts[i]) > 255)

(***************************************************************************)
(* Input universes.                                                        *)
(***************************************************************************)
T_A == <<"A">>
T_Esc == <<"S", "\"", "\\">>

T_Q == <<"Q", "?">>
T_Qsp == <<"Q", "?", " ">>

\* what the user may type into new_cmd_input
InputTexts == {T_A, <<" ", "A">>, T_Q, T_Qsp, <<" ">>, <<>>}

\* config/presets.json: commands are used as stored (no strip on load)
Presets ==
  { [commands |-> <<T_Qsp>>, repeat |-> 1, interval |-> 100],
    [commands |-> <<T_A, T_A>>, repeat |-> 1, interval |-> 100],
    [commands |-> <<T_A, T_Q>>, repeat |-> 2, interval |-> 100] }

H_127_0_0_1 == <<"1","2","7",".","0",".","0",".","1">>
H_192_168_1_1 == <<"1","9","2",".","1","6","8",".","1",".","1">>
H_999_1_1_1 == <<"9","9","9",".","1",".","1",".","1">>

\* host texts typed while the sequencer is explored
MainHosts == {H_127_0_0_1, H_999_1_1_1}

\* host texts generated from parts, for the connect validation
PartTexts == {<<"2","5","5">>, <<"2","5","6">>, <<>>, <<"1","a">>}

RECURSIVE JoinDots(_)
JoinDots(ps) ==
  IF Len(ps) = 0 THEN <<>>
  ELSE IF Len(ps) = 1 THEN ps[1]
  ELSE ps[1] \o <<".">> \o JoinDots(Tail(ps))

GeneratedHosts ==
  UNION { {JoinDots(ps) : ps \in [1..k -> PartTexts]} : k \in 1..MaxHostParts }

HostTexts == GeneratedHosts \cup MainHosts \cup {H_192_168_1_1}

VARIABLES
  host_input,       \* self.host_input.text()
  instrument,       \* self.instrument: present?, and its sock (0 = None)
  command_list,     \* self.command_list items
  repeat_input,     \* self.repeat_input.value()
  worker,           \* self.worker: 0 = None, else the thread it references
  threads,          \* SCPIWorker objects: their fields and position in run()
  queue,            \* signals emitted by workers, not yet handled by the GUI
  fg,               \* the GUI thread: idle, or blocked in recv of a send
  execute_btn,      \* enabled?
  stop_btn,         \* enabled?
  connect_btn,      \* enabled?
  execution_state,  \* set_execution_state
  msg_box,          \* dialog shown by the last GUI handler ("none" if none),
                    \* or the exception that escaped it
  run_edits,        \* edits of command_list / repeat_input since the run started
  dev,              \* an SCPIInstrument driven through its methods: self.sock
  socks,            \* the socket objects made by dev.connect(), and their state
  call,             \* the last method call on dev and what it did
  wire,             \* the byte stream of dev's connection and its peer
  interval_input,   \* self.interval_input.value(), in hundredths of a second
  presets,          \* self.presets: name -> preset
  presets_file,     \* config/presets.json as written: name -> JSON texts
  preset_combo,     \* self.preset_combo: item texts and current index
  preset_op,        \* the last preset operation, numbered
  saved             \* what the last successful save_preset_to_file stored

gui_vars == <<host_input, instrument, command_list, repeat_input, worker,
              threads, queue, fg, execute_btn, stop_btn, connect_btn,
              execution_state, msg_box, run_edits>>

api_vars == <<dev, socks, call, wire>>

preset_vars == <<interval_input, presets, presets_file, preset_combo,
                 preset_op, saved>>

vars == <<gui_vars, api_vars, preset_vars>>

ThreadIds == 1..MaxThreads

\* a slot holding no SCPIWorker
NoThread ==
  [pc |-> "none", commands |-> <<>>, repeat |-> 0, is_running |-> FALSE,
   total_commands |-> 0, commands_executed |-> 0, loop |-> 0, idx |-> 0,
   response |-> "None", did_read |-> FALSE, recv_out |-> "none",
   steps |-> 0, progress |-> <<0, 0>>, sleeps |-> 0, writes |-> 0,
   ended |-> "none", stop_pc |-> "none", stop_steps |-> 0, stop_writes |-> 0,
   stop_sleeps |-> 0, last_written |-> <<>>, running |-> FALSE]

NoEvent == [sig |-> "none", cmd |-> <<>>, response |-> "", loop_num |-> 0,
            current |-> 0, total |-> 0]

FgIdle == [pc |-> "idle", cmd |-> <<>>]

SockIds == 1..MaxSocks

NoCall == [op |-> "none", cmd |-> <<>>, result |-> "none", wrote |-> 0,
           read |-> FALSE, seq |-> 0, reply |-> <<>>, written |-> <<>>,
           sleeps |-> 0, at |-> 0, tid |-> 0]

\* the connection of self.sock as a byte stream: seq numbers the commands
\* written on it, peer holds the numbers of the queries the peer has
\* received and not answered yet, rx the numbers of the replies that have
\* arrived and were not read yet
NoWire == [seq |-> 0, peer |-> <<>>, rx |-> <<>>]

\* the first item of preset_combo, "-- 选择预设 --" (lines 565, 571)
Sentinel == "-- select preset --"

\* the default name of load_preset_from_file, "未命名预设" (line 614)
Unnamed == "unnamed"

\* the preset names explored, in the order sorted() gives them (line 566):
\* '-' < 'p' < the CJK characters
SortedNames == <<Sentinel, "p", Unnamed>>

PresetNames == {SortedNames[i] : i \in 1..Len(SortedNames)}

NoPreset == [present |-> FALSE, commands |-> <<>>, repeat |-> 0,
             interval |-> 0]

\* self.presets = {} (line 559)
NoPresets == [name \in PresetNames |-> NoPreset]

\* an absent key of the "presets" object of config/presets.json; the values
\* of a present key are JSON texts
NoEntry == [present |-> FALSE, commands |-> <<>>, repeat |-> <<>>,
            interval |-> <<>>]

\* config/presets.json holding {"presets": {}}
EmptyFile == [exists |-> TRUE, presets |-> [name \in PresetNames |-> NoEntry]]

\* no config/presets.json
MissingFile == [EmptyFile EXCEPT !.exists = FALSE]

NoPresetOp == [n |-> 0, op |-> "none", name |-> "", item |-> 0]

NoSave == [present |-> FALSE, name |-> "", commands |-> <<>>, repeat |-> 0,
           interval |-> 0]

is_connected == instrument.present /\ instrument.sock # 0

Init ==
  /\ host_input = H_127_0_0_1
  /\ instrument = [present |-> FALSE, sock |-> 0]
  /\ command_list = <<>>
  /\ repeat_input = 1
  /\ worker = 0
  /\ threads = [t \in ThreadIds |-> NoThread]
  /\ queue = <<>>
  /\ fg = FgIdle
  /\ execute_btn = FALSE
  /\ stop_btn = FALSE
  /\ connect_btn = TRUE
  /\ execution_state = "idle"
  /\ msg_box = "none"
  /\ run_edits = 0
  /\ dev = [sock |-> 0]
  /\ socks = [s \in SockIds |-> "none"]
  /\ call = NoCall
  /\ wire = NoWire
  /\ interval_input = 100
  /\ presets = NoPresets
  /\ presets_file = EmptyFile
  /\ preset_combo = [items |-> <<Sentinel>>, index |-> 1]
  /\ preset_op = NoPresetOp
  /\ saved = NoSave

(***************************************************************************)
(* SCPIWorker.run, one action per step of the thread.                      *)
(*   check          line 110      poll _is_running                         *)
(*   send           line 115/65   send_command: sendall                    *)
(*   recv           line 70       send_command: recv of a query            *)
(*   emit_step      line 116      command_sent.emit                        *)
(*   emit_progress  lines 117-118 commands_executed += 1, progress emit    *)
(*   sleep          lines 121-122 interval sleep unless last command       *)
(*   finish         line 128      finished.emit after the loops            *)
(***************************************************************************)
SetThread(t, r) == threads' = [threads EXCEPT ![t] = r]

Emit_front(e) == queue' = <<e>> \o queue

\* a signal emitted by the worker thread is queued to the GUI thread behind
\* the ones emitted before it (connections of lines 952-955)
Emit(e) == queue' = Append(queue, e)

total_commands_sum(commands, repeat) == Len(commands) + repeat

\* line 104
total_commands_of(commands, repeat) == Len(commands) * repeat

\* the for headers of lines 107 and 109: where run() stands with loop index
\* loop (0-based) and command position idx (1-based) about to be taken
LoopPc_no_poll(commands, repeat, loop, idx) ==
  IF loop < repeat /\ Len(commands) > 0 /\ idx <= Len(commands)
  THEN (IF loop = 0 /\ idx = 1 THEN "check" ELSE "send") ELSE "finish"

LoopPc(commands, repeat, loop, idx) ==
  IF loop < repeat /\ Len(commands) > 0 /\ idx <= Len(commands)
  THEN "check" ELSE "finish"

\* SCPIWorker.__init__ and the entry of run() (lines 89-105)
NewThread(commands, repeat) ==
  [NoThread EXCEPT
     !.pc = LoopPc(commands, repeat, 0, 1),
     !.commands = commands, !.repeat = repeat, !.is_running = TRUE,
     !.running = TRUE,
     !.total_commands = total_commands_of(commands, repeat),
     !.commands_executed = 0, !.loop = 0, !.idx = 1]

CurCmd_live(th) ==
  IF th.idx <= Len(command_list) THEN command_list[th.idx]
  ELSE th.commands[th.idx]

\* cmd of 'for cmd in self.commands' (line 109): an element of the list
\* the worker was constructed with
CurCmd(th) == th.commands[th.idx]

stop_polled_never(th) == FALSE

\* line 110: if not self._is_running
stop_polled(th) == ~th.is_running

Stopped_no_return(th) == [th EXCEPT !.pc = "send", !.ended = "stopped"]

\* lines 111-112: finished emitted, return
Stopped(th) == [th EXCEPT !.pc = "done", !.ended = "stopped"]

WCheck(t) ==
  LET th == threads[t] IN
  /\ th.pc = "check"
  /\ IF stop_polled(th)
     THEN /\ SetThread(t, Stopped(th))
          /\ Emit([NoEvent EXCEPT !.sig = "finished"])
     ELSE /\ SetThread(t, [th EXCEPT !.pc = "send"])
          /\ UNCHANGED queue
  /\ UNCHANGED <<host_input, instrument, command_list, repeat_input, worker,
                 fg, execute_btn, stop_btn, connect_btn,
                 execution_state, msg_box,
                 run_edits>>
  /\ UNCHANGED <<api_vars, preset_vars>>

Failed_skip(th) == [th EXCEPT !.pc = "sleep", !.ended = "failed"]

\* lines 124-126: SCPIError caught, error_occurred emitted, return
Failed(th) == [th EXCEPT !.pc = "done", !.ended = "failed"]

\* the SCPIError messages of send_command (lines 60, 77, 79) as emitted by
\* line 125: the event's response field holds the kind of the message, its
\* cmd field the command the message names (line 60 names none)
ErrorEvent(kind, cmd) ==
  [NoEvent EXCEPT !.sig = "error_occurred", !.response = kind,
                  !.cmd = IF kind = "not_connected" THEN <<>> ELSE cmd]

\* self.timeout = 10 (line 26), put on the socket by connect (line 32)
connect_timeout == 10

\* send_command(self, command, timeout=5.0) (line 48), put on the socket
\* before the recv of a query (line 69)
response_timeout == 5

Blocks_unbounded(timeouts) == {"never"}

\* a blocking socket call under a timeout returns or raises within it; under
\* no timeout (None, written 0) it may also never return
Blocks(timeouts) ==
  IF \A seconds \in timeouts : seconds > 0 THEN {} ELSE {"never"}

\* sendall returns, or raises socket.timeout (line 76) or another error
\* (line 78); the timeout in force is that of connect or of an earlier query
SendOutcomes ==
  {"ok", "timeout", "error"} \cup Blocks({connect_timeout, response_timeout})

\* send_command lines 59-66 and 74: the write
WSend(t) ==
  LET th == threads[t] IN
  /\ th.pc = "send"
  /\ IF instrument.sock = 0
     THEN /\ SetThread(t, [Failed(th) EXCEPT !.recv_out = "none"])
          /\ Emit(ErrorEvent("not_connected", CurCmd(th)))
     ELSE \E out \in SendOutcomes :
            IF out = "never"
            THEN /\ SetThread(t, [th EXCEPT !.pc = "blocked"])
                 /\ UNCHANGED queue
            ELSE IF out # "ok"
            THEN /\ SetThread(t, [Failed(th) EXCEPT !.writes = th.writes + 1,
                                                    !.last_written = CurCmd(th),
                                                    !.recv_out = "none"])
                 /\ Emit(ErrorEvent(out, CurCmd(th)))
            ELSE /\ SetThread(t,
                      [th EXCEPT !.writes = th.writes + 1,
                                 !.last_written = CurCmd(th),
                                 !.did_read = FALSE, !.recv_out = "none",
                                 !.response = "None",
                                 !.pc = IF endswith_q(CurCmd(th))
                                        THEN "recv" ELSE "emit_step"])
                 /\ UNCHANGED queue
  /\ UNCHANGED <<host_input, instrument, command_list, repeat_input, worker,
                 fg, execute_btn, stop_btn, connect_btn,
                 execution_state, msg_box,
                 run_edits>>
  /\ UNCHANGED <<api_vars, preset_vars>>

RecvOutcomes ==
  {"data", "empty", "timeout", "error"} \cup Blocks({response_timeout})

recv_raises_unless_data(out) == out # "data"

\* lines 70-79: recv raises on a timeout or another socket error; zero
\* bytes are returned, not raised (lines 71-73)
recv_raises(out) == out \in {"timeout", "error"}

\* send_command lines 69-73 and 76-79: the read of a query
WRecv(t) ==
  LET th == threads[t] IN
  /\ th.pc = "recv"
  /\ \E out \in RecvOutcomes :
       IF out = "never"
       THEN /\ SetThread(t, [th EXCEPT !.pc = "blocked"])
            /\ UNCHANGED queue
       ELSE IF recv_raises(out)
       THEN /\ SetThread(t, [Failed(th) EXCEPT !.did_read = TRUE,
                                               !.recv_out = out])
            /\ Emit(ErrorEvent(out, CurCmd(th)))
       ELSE /\ SetThread(t,
                 [th EXCEPT !.did_read = TRUE, !.pc = "emit_step",
                            !.recv_out = out,
                            !.response = IF out = "data" THEN "R" ELSE "None"])
            /\ UNCHANGED queue
  /\ UNCHANGED <<host_input, instrument, command_list, repeat_input, worker,
                 fg, execute_btn, stop_btn, connect_btn,
                 execution_state, msg_box,
                 run_edits>>
  /\ UNCHANGED <<api_vars, preset_vars>>

\* line 116: str(response) if response else "No response"
step_response(response) ==
  IF response # "None" THEN response ELSE "No response"

loop_num_zero_based(loop) == loop

\* line 108: loop_num = loop + 1
loop_num_of(loop) == loop + 1

WEmitStep_unless_stopped(t) ==
  LET th == threads[t] IN
  /\ th.pc = "emit_step"
  /\ IF th.is_running
     THEN /\ SetThread(t, [th EXCEPT !.pc = "emit_progress",
                                     !.steps = th.steps + 1])
          /\ Emit([NoEvent EXCEPT
                     !.sig = "command_sent", !.cmd = CurCmd(th),
                     !.response = step_response(th.response),
                     !.loop_num = loop_num_of(th.loop)])
     ELSE /\ SetThread(t, Stopped(th))
          /\ Emit([NoEvent EXCEPT !.sig = "finished"])
  /\ UNCHANGED <<host_input, instrument, command_list, repeat_input, worker,
                 fg, execute_btn, stop_btn, connect_btn,
                 execution_state, msg_box,
                 run_edits>>
  /\ UNCHANGED <<api_vars, preset_vars>>

\* line 116
WEmitStep(t) ==
  LET th == threads[t] IN
  /\ th.pc = "emit_step"
  /\ SetThread(t, [th EXCEPT !.pc = "emit_progress", !.steps = th.steps + 1])
  /\ Emit([NoEvent EXCEPT
             !.sig = "command_sent", !.cmd = CurCmd(th),
             !.response = step_response(th.response),
             !.loop_num = loop_num_of(th.loop)])
  /\ UNCHANGED <<host_input, instrument, command_list, repeat_input, worker,
                 fg, execute_btn, stop_btn, connect_btn,
                 execution_state, msg_box,
                 run_edits>>
  /\ UNCHANGED <<api_vars, preset_vars>>

\* lines 117-118
WEmitProgress(t) ==
  LET th == threads[t]
      n == th.commands_executed + 1 IN
  /\ th.pc = "emit_progress"
  /\ SetThread(t, [th EXCEPT !.pc = "sleep", !.commands_executed = n,
                             !.progress = <<n, th.total_commands>>])
  /\ Emit([NoEvent EXCEPT !.sig = "progress_updated", !.current = n,
                          !.total = th.total_commands])
  /\ UNCHANGED <<host_input, instrument, command_list, repeat_input, worker,
                 fg, execute_btn, stop_btn, connect_btn,
                 execution_state, msg_box,
                 run_edits>>
  /\ UNCHANGED <<api_vars, preset_vars>>

\* line 121: not (loop == self.repeat - 1 and cmd == self.commands[-1])
sleep_after(commands, repeat, loop, idx) ==
  ~(loop = repeat - 1 /\ commands[idx] = commands[Len(commands)])

\* lines 121-122, then the next iteration of the for loops
WSleep(t) ==
  LET th == threads[t]
      last == th.idx = Len(th.commands)
      loop2 == IF last THEN th.loop + 1 ELSE th.loop
      idx2 == IF last THEN 1 ELSE th.idx + 1 IN
  /\ th.pc = "sleep"
  /\ SetThread(t,
       [th EXCEPT
          !.sleeps = IF sleep_after(th.commands, th.repeat, th.loop, th.idx)
                     THEN th.sleeps + 1 ELSE th.sleeps,
          !.loop = loop2, !.idx = idx2,
          !.pc = LoopPc(th.commands, th.repeat, loop2, idx2)])
  /\ UNCHANGED <<host_input, instrument, command_list, repeat_input, worker,
                 queue, fg, execute_btn, stop_btn, connect_btn,
                 execution_state, msg_box,
                 run_edits>>
  /\ UNCHANGED <<api_vars, preset_vars>>

\* line 128
WFinish(t) ==
  LET th == threads[t] IN
  /\ th.pc = "finish"
  /\ SetThread(t, [th EXCEPT !.pc = "done", !.ended = "completed"])
  /\ Emit([NoEvent EXCEPT !.sig = "finished"])
  /\ UNCHANGED <<host_input, instrument, command_list, repeat_input, worker,
                 fg, execute_btn, stop_btn, connect_btn,
                 execution_state, msg_box,
                 run_edits>>
  /\ UNCHANGED <<api_vars, preset_vars>>

\* the return statements of lines 112 and 126 and the end of run(): after
\* the terminal signal was emitted the thread leaves run() and winds down;
\* nothing in the program waits for this
WReturn(t) ==
  LET th == threads[t] IN
  /\ th.pc = "done"
  /\ th.running
  /\ SetThread(t, [th EXCEPT !.running = FALSE])
  /\ UNCHANGED <<host_input, instrument, command_list, repeat_input, worker,
                 queue, fg, execute_btn, stop_btn, connect_btn,
                 execution_state, msg_box,
                 run_edits>>
  /\ UNCHANGED <<api_vars, preset_vars>>

(***************************************************************************)
(* SCPIGUI handlers.  Each runs on the GUI thread, one at a time; the only *)
(* place the GUI thread blocks inside a handler is the recv of             *)
(* send_single_command, during which worker threads keep running.          *)
(***************************************************************************)
GuiReady == fg.pc = "idle"

\* an edit of the list or of repeat_input: counted while a run is in flight
Edited ==
  /\ worker # 0 => run_edits < MaxRunEdits
  /\ run_edits' = IF worker # 0 THEN run_edits + 1 ELSE 0

\* the user edits host_input; the text is read only by the connect branch
\* of toggle_connection (line 870), so edits are explored where it is enabled
SetHostInput(h) ==
  /\ GuiReady
  /\ ~is_connected
  /\ h # host_input
  /\ host_input' = h
  /\ msg_box' = "none"
  /\ UNCHANGED <<instrument, command_list, repeat_input, worker, threads,
                 queue, fg, execute_btn, stop_btn, connect_btn,
                 execution_state,
                 run_edits>>
  /\ UNCHANGED <<api_vars, preset_vars>>

ConnectOutcomes == {"ok", "timeout", "refused", "error"}

connect_clickable_always == TRUE

\* connect_btn.clicked (line 280) is the only caller of toggle_connection:
\* a disabled button delivers no click
connect_clickable == connect_btn

\* the *IDN? probe of line 883: response text, None, or SCPIError raised
ProbeOutcomes == {"data", "empty", "failed"}

\* the local idn is assigned on line 883 only when send_command returns
idn_bound(probe) == probe # "failed"

\* toggle_connection (lines 857-924); connect_btn.clicked.  An exception that
\* escapes the slot is recorded in msg_box; the behaviours in which the
\* application goes on afterwards include those in which it stops there.
ToggleConnection ==
  /\ GuiReady
  /\ connect_clickable
  /\ IF is_connected
     THEN \E close_ok \in BOOLEAN :
            IF close_ok
            THEN \* lines 860-866
                 /\ instrument' = [present |-> FALSE, sock |-> 0]
                 /\ execute_btn' = FALSE
                 /\ execution_state' = "idle"
                 /\ msg_box' = "none"
            ELSE \* sock.close() raises on line 45: lines 867-868
                 /\ msg_box' = "crit_disconnect_error"
                 /\ UNCHANGED <<instrument, execute_btn, execution_state>>
     ELSE IF ~is_valid_ip(host_input)
     THEN \* lines 871-874
          /\ msg_box' = "warn_bad_ip"
          /\ UNCHANGED <<instrument, execute_btn, execution_state>>
     ELSE \E out \in ConnectOutcomes, probe \in ProbeOutcomes :
            IF out = "ok"
            THEN \* lines 877-904: the probe and its except clause (896-899),
                 \* set_connection_ui(True) (901), then "if idn:" on line 903
                 /\ instrument' = [present |-> TRUE, sock |-> 1]
                 /\ execute_btn' = TRUE
                 /\ msg_box' = IF idn_bound(probe) THEN "none"
                               ELSE "uncaught_UnboundLocalError"
                 /\ UNCHANGED execution_state
            ELSE \* lines 905-924
                 /\ instrument' = [present |-> FALSE, sock |-> 0]
                 /\ execute_btn' = FALSE
                        /\ msg_box' = "crit_connect_error"
                 /\ UNCHANGED execution_state
  /\ UNCHANGED <<host_input, command_list, repeat_input, worker, threads,
                 queue, fg, stop_btn, connect_btn,
                 run_edits>>
  /\ UNCHANGED <<api_vars, preset_vars>>

\* add_command (lines 715-723)
AddCommand(text) ==
  LET cmd == strip(text) IN
  /\ GuiReady
  /\ IF cmd = <<>>
     THEN /\ msg_box' = "warn_empty_command"
          /\ UNCHANGED <<command_list, run_edits>>
     ELSE /\ Len(command_list) < MaxCmds
          /\ Edited
          /\ command_list' = Append(command_list, cmd)
          /\ msg_box' = "none"
  /\ UNCHANGED <<host_input, instrument, repeat_input, worker, threads, queue,
                 fg, execute_btn, stop_btn, connect_btn,
                 execution_state>>
  /\ UNCHANGED <<api_vars, preset_vars>>

\* remove_command (lines 747-750) with item i selected
RemoveCommand(i) ==
  /\ GuiReady
  /\ i \in 1..Len(command_list)
  /\ Edited
  /\ command_list' = SubSeq(command_list, 1, i - 1)
                       \o SubSeq(command_list, i + 1, Len(command_list))
  /\ msg_box' = "none"
  /\ UNCHANGED <<host_input, instrument, repeat_input, worker, threads, queue,
                 fg, execute_btn, stop_btn, connect_btn,
                 execution_state>>
  /\ UNCHANGED <<api_vars, preset_vars>>

\* the user changes repeat_input (range 1..1000, line 401)
SetRepeat(r) ==
  /\ GuiReady
  /\ r # repeat_input
  /\ Edited
  /\ repeat_input' = r
  /\ msg_box' = "none"
  /\ UNCHANGED <<host_input, instrument, command_list, worker, threads, queue,
                 fg, execute_btn, stop_btn, connect_btn,
                 execution_state>>
  /\ UNCHANGED <<api_vars, preset_vars>>

\* load_preset (lines 581-588) for a stored preset
LoadPreset(p) ==
  /\ GuiReady
  /\ <<command_list, repeat_input>> # <<p.commands, p.repeat>>
  /\ Edited
  /\ command_list' = p.commands
  /\ repeat_input' = p.repeat
  /\ interval_input' = p.interval
  /\ msg_box' = "none"
  /\ UNCHANGED <<host_input, instrument, worker, threads, queue, fg,
                 execute_btn, stop_btn, connect_btn,
                 execution_state>>
  /\ UNCHANGED <<presets, presets_file, preset_combo, preset_op, saved>>
  /\ UNCHANGED api_vars

\* send_single_command (lines 725-745) up to the return of sendall;
\* send_now_btn.clicked, the button is never disabled
SendSingleCommand(text) ==
  LET cmd == strip(text) IN
  /\ GuiReady
  /\ IF ~is_connected
     THEN /\ msg_box' = "warn_connect_first"
          /\ UNCHANGED fg
     ELSE IF cmd = <<>>
     THEN /\ msg_box' = "warn_enter_command"
          /\ UNCHANGED fg
     ELSE /\ msg_box' = "none"
          /\ \E out \in SendOutcomes :
               fg' = IF out = "never" THEN [pc |-> "blocked", cmd |-> cmd]
                     ELSE IF out = "ok" /\ endswith_q(cmd)
                     THEN [pc |-> "recv", cmd |-> cmd] ELSE FgIdle
  /\ UNCHANGED <<host_input, instrument, command_list, repeat_input, worker,
                 threads, queue, execute_btn, stop_btn, connect_btn,
                 execution_state,
                 run_edits>>
  /\ UNCHANGED <<api_vars, preset_vars>>

\* send_single_command: the recv of a query returns or raises (lines 70-79),
\* then lines 738-745
SendSingleRecv ==
  /\ fg.pc = "recv"
  /\ \E out \in RecvOutcomes :
       fg' = IF out = "never" THEN [fg EXCEPT !.pc = "blocked"] ELSE FgIdle
  /\ UNCHANGED <<host_input, instrument, command_list, repeat_input, worker,
                 threads, queue, execute_btn, stop_btn, connect_btn,
                 execution_state, msg_box,
                 run_edits>>
  /\ UNCHANGED <<api_vars, preset_vars>>

execute_reject_no_connected_check(inst, commands) ==
  IF commands = <<>> THEN "warn_no_commands" ELSE "none"

execute_reject_no_empty_check(inst, commands) ==
  IF ~inst.present \/ inst.sock = 0 THEN "warn_not_connected" ELSE "none"

\* lines 928-935: the two early returns of execute_commands
execute_reject(inst, commands) ==
  IF ~inst.present \/ inst.sock = 0 THEN "warn_not_connected"
  ELSE IF commands = <<>> THEN "warn_no_commands"
  ELSE "none"

execute_btn_left_enabled == TRUE

\* line 944: self.execute_btn.setEnabled(False)
execute_btn_while_running == FALSE

connect_btn_left_enabled == TRUE

\* line 946: self.connect_btn.setEnabled(False)
connect_btn_while_running == FALSE

FreeSlots == {t \in ThreadIds : threads[t].pc \in {"none", "done"}}

FreeSlot == CHOOSE t \in FreeSlots : \A u \in FreeSlots : t <= u

\* the body of execute_commands (lines 926-956)
execute_commands ==
  /\ GuiReady
  /\ IF execute_reject(instrument, command_list) # "none"
     THEN /\ msg_box' = execute_reject(instrument, command_list)
          /\ UNCHANGED <<worker, threads, execute_btn, stop_btn, connect_btn,
                         execution_state, run_edits>>
     ELSE /\ FreeSlots # {}
          /\ execute_btn' = execute_btn_while_running
          /\ stop_btn' = TRUE
          /\ connect_btn' = connect_btn_while_running
          /\ execution_state' = "executing"
          /\ worker' = FreeSlot
          /\ SetThread(FreeSlot, NewThread(command_list, repeat_input))
          /\ msg_box' = "none"
          /\ run_edits' = 0
  /\ UNCHANGED <<host_input, instrument, command_list, repeat_input, queue,
                 fg>>
  /\ UNCHANGED <<api_vars, preset_vars>>

\* execute_btn.clicked (line 434): delivered only while the button is enabled
ExecuteCommands == execute_btn /\ execute_commands

\* execute_commands invoked as a method while the session is not connected
\* (the button is disabled then): exercises the guard of line 928
ExecuteCommandsCall == ~is_connected /\ execute_commands

\* stop_execution (lines 980-985); stop_btn.clicked
StopExecution ==
  /\ GuiReady
  /\ stop_btn
  /\ IF worker # 0
     THEN /\ SetThread(worker,
               [threads[worker] EXCEPT
                  !.is_running = FALSE,
                  !.stop_pc = threads[worker].pc,
                  !.stop_steps = threads[worker].steps,
                  !.stop_writes = threads[worker].writes,
                  !.stop_sleeps = threads[worker].sleeps])
          /\ stop_btn' = FALSE
     ELSE UNCHANGED <<threads, stop_btn>>
  /\ msg_box' = "none"
  /\ UNCHANGED <<host_input, instrument, command_list, repeat_input, worker,
                 queue, fg, execute_btn, connect_btn,
                 execution_state,
                 run_edits>>
  /\ UNCHANGED <<api_vars, preset_vars>>

\* self.worker = None (lines 1043, 1054) drops the only reference to the
\* SCPIWorker (created without a parent, line 951): a worker that has
\* emitted its terminal signal is released, whether or not its thread has
\* returned yet
Released(w) ==
  IF w # 0 /\ threads[w].pc = "done"
  THEN [threads EXCEPT ![w] = NoThread] ELSE threads

Pending(sig) == GuiReady /\ queue # <<>> /\ Head(queue).sig = sig

\* handle_command_result (lines 958-971): output text only
HandleCommandResult ==
  /\ Pending("command_sent")
  /\ queue' = Tail(queue)
  /\ msg_box' = "none"
  /\ UNCHANGED <<host_input, instrument, command_list, repeat_input, worker,
                 threads, fg, execute_btn, stop_btn, connect_btn,
                 execution_state,
                 run_edits>>
  /\ UNCHANGED <<api_vars, preset_vars>>

\* update_progress (lines 973-978): progress bar display only
UpdateProgress ==
  /\ Pending("progress_updated")
  /\ queue' = Tail(queue)
  /\ msg_box' = "none"
  /\ UNCHANGED <<host_input, instrument, command_list, repeat_input, worker,
                 threads, fg, execute_btn, stop_btn, connect_btn,
                 execution_state,
                 run_edits>>
  /\ UNCHANGED <<api_vars, preset_vars>>

\* handle_execution_finished (lines 1035-1043)
HandleExecutionFinished ==
  /\ Pending("finished")
  /\ queue' = Tail(queue)
  /\ execute_btn' = TRUE
  /\ stop_btn' = FALSE
  /\ connect_btn' = TRUE
  /\ execution_state' = "completed"
  /\ worker' = 0
  /\ threads' = Released(worker)
  /\ msg_box' = "none"
  /\ run_edits' = 0
  /\ UNCHANGED <<host_input, instrument, command_list, repeat_input,
                 fg>>
  /\ UNCHANGED <<api_vars, preset_vars>>

HandleExecutionError_disconnects ==
  /\ Pending("error_occurred")
  /\ queue' = Tail(queue)
  /\ instrument' = [present |-> FALSE, sock |-> 0]
  /\ execute_btn' = FALSE
  /\ stop_btn' = FALSE
  /\ connect_btn' = TRUE
  /\ execution_state' = "error"
  /\ worker' = 0
  /\ threads' = Released(worker)
  /\ msg_box' = "crit_exec_error"
  /\ run_edits' = 0
  /\ UNCHANGED <<host_input, command_list, repeat_input, fg>>
  /\ UNCHANGED <<api_vars, preset_vars>>

\* handle_execution_error (lines 1045-1055)
HandleExecutionError ==
  /\ Pending("error_occurred")
  /\ queue' = Tail(queue)
  /\ execute_btn' = TRUE
  /\ stop_btn' = FALSE
  /\ connect_btn' = TRUE
  /\ execution_state' = "error"
  /\ worker' = 0
  /\ threads' = Released(worker)
  /\ msg_box' = "crit_exec_error"
  /\ run_edits' = 0
  /\ UNCHANGED <<host_input, instrument, command_list, repeat_input,
                 fg>>
  /\ UNCHANGED <<api_vars, preset_vars>>

(***************************************************************************)
(* Presets: save_preset_to_file, load_preset, load_preset_from_file,       *)
(* load_default_presets and the preset_combo signal that ties them.        *)
(***************************************************************************)
DigitChar(d) ==
  CASE d = 0 -> "0" [] d = 1 -> "1" [] d = 2 -> "2" [] d = 3 -> "3"
    [] d = 4 -> "4" [] d = 5 -> "5" [] d = 6 -> "6" [] d = 7 -> "7"
    [] d = 8 -> "8" [] d = 9 -> "9"

\* json.dump of a non-negative int: its decimal digits
RECURSIVE dumps_int(_)
dumps_int(n) ==
  IF n < 10 THEN <<DigitChar(n)>>
  ELSE Append(dumps_int(n \div 10), DigitChar(n % 10))

\* json.dump of a float that is a multiple of 0.01, given in hundredths:
\* repr() prints the shortest decimal, with at least one fraction digit
dumps_float(h) ==
  dumps_int(h \div 100) \o <<".">> \o
    (IF h % 10 = 0 THEN <<DigitChar((h % 100) \div 10)>>
     ELSE <<DigitChar((h % 100) \div 10), DigitChar(h % 10)>>)

\* json.load of such a float text, in hundredths
loads_float(t) ==
  LET parts == split(t)
      frac == parts[2] IN
  100 * int(parts[1])
    + (IF Len(frac) = 1 THEN 10 * int(frac) ELSE int(SubSeq(frac, 1, 2)))

\* json.dump of a str with ensure_ascii=False (line 702): quotes around the
\* text, '"' and '\' escaped with a backslash
RECURSIVE json_escape(_)
json_escape(text) ==
  IF text = <<>> THEN <<>>
  ELSE (IF Head(text) \in {"\"", "\\"} THEN <<"\\", Head(text)>>
        ELSE <<Head(text)>>) \o json_escape(Tail(text))

dumps_str(text) == <<"\"">> \o json_escape(text) \o <<"\"">>

RECURSIVE json_unescape(_)
json_unescape(t) ==
  IF t = <<>> THEN <<>>
  ELSE IF Head(t) = "\\" /\ Len(t) >= 2
  THEN <<t[2]>> \o json_unescape(SubSeq(t, 3, Len(t)))
  ELSE <<Head(t)>> \o json_unescape(Tail(t))

\* json.load of a str
loads_str(t) == json_unescape(SubSeq(t, 2, Len(t) - 1))

\* json.dump (line 702) of one preset of the "presets" object
dumps_preset(preset) ==
  IF ~preset.present THEN NoEntry
  ELSE [present |-> TRUE,
        commands |-> [i \in 1..Len(preset.commands) |->
                        dumps_str(preset.commands[i])],
        repeat |-> dumps_int(preset.repeat),
        interval |-> dumps_float(preset.interval)]

\* json.load (lines 547, 690) of one preset of the "presets" object
loads_preset(entry) ==
  IF ~entry.present THEN NoPreset
  ELSE [present |-> TRUE,
        commands |-> [i \in 1..Len(entry.commands) |->
                        loads_str(entry.commands[i])],
        repeat |-> int(entry.repeat),
        interval |-> loads_float(entry.interval)]

\* json.load of config/presets.json, its "presets" object
loads_presets(file) == [name \in PresetNames |-> loads_preset(file.presets[name])]

\* QSpinBox.setValue / QDoubleSpinBox.setValue: the value is brought into
\* the widget's range
set_value(lo, hi, v) == IF v < lo THEN lo ELSE IF v > hi THEN hi ELSE v

Ui == [commands |-> command_list, repeat |-> repeat_input,
       interval |-> interval_input]

SetUi(ui) ==
  /\ command_list' = ui.commands
  /\ repeat_input' = ui.repeat
  /\ interval_input' = ui.interval

\* load_preset(preset_name) (lines 569-588): what the widgets hold after it.
\* The placeholder text is tested first (571-576), then the store (578).
load_preset(preset_name, store, ui) ==
  IF preset_name = Sentinel
  THEN [commands |-> <<>>, repeat |-> 1, interval |-> 100]
  ELSE IF preset_name \notin PresetNames \/ ~store[preset_name].present
  THEN ui
  ELSE [commands |-> store[preset_name].commands,
        repeat |-> set_value(1, 1000, store[preset_name].repeat),
        interval |-> set_value(10, 6000, store[preset_name].interval)]

\* the items update_preset_combo puts into preset_combo (lines 564-567)
ComboItems(store) ==
  <<Sentinel>> \o SelectSeq(SortedNames, LAMBDA name : store[name].present)

\* update_preset_combo (lines 562-567).  currentTextChanged is connected to
\* load_preset (line 313): clear() makes the current text "", which
\* load_preset finds in no store, and the first addItem makes the
\* placeholder current, so load_preset runs with the placeholder text.
update_preset_combo(store, ui) ==
  load_preset(Sentinel, store, load_preset("", store, ui))

\* QComboBox.findText: the first item with that text, 0 when there is none
FindText(items, text) ==
  IF \E i \in 1..Len(items) : items[i] = text
  THEN CHOOSE i \in 1..Len(items) :
         items[i] = text /\ \A k \in 1..(i - 1) : items[k] # text
  ELSE 0

\* update_preset_combo() followed by preset_combo.setCurrentText(name)
\* (lines 623-624, 706-707): the item found becomes current, and
\* load_preset runs with its text when the current item changes
ComboAfterSet(store, name) ==
  LET items == ComboItems(store)
      found == FindText(items, name) IN
  [items |-> items, index |-> IF found = 0 THEN 1 ELSE found]

UiAfterSet(store, name, ui) ==
  LET items == ComboItems(store)
      found == FindText(items, name)
      ui1 == update_preset_combo(store, ui) IN
  IF found \in {0, 1} THEN ui1 ELSE load_preset(items[found], store, ui1)

PresetStep(op, name, item) ==
  /\ preset_op.n < MaxPresetOps
  /\ preset_op' = [n |-> preset_op.n + 1, op |-> op, name |-> name,
                   item |-> item]

\* the user changes interval_input (range 0.1..60.0, lines 407-410)
SetInterval(v) ==
  /\ GuiReady
  /\ v # interval_input
  /\ interval_input' = v
  /\ msg_box' = "none"
  /\ UNCHANGED <<host_input, instrument, command_list, repeat_input, worker,
                 threads, queue, fg, execute_btn, stop_btn, connect_btn,
                 execution_state, run_edits>>
  /\ UNCHANGED <<presets, presets_file, preset_combo, preset_op, saved>>
  /\ UNCHANGED api_vars

\* save_preset_to_file (lines 670-713) with preset_name typed into the
\* dialog; save_preset_btn.clicked (line 331)
SavePresetToFile(preset_name) ==
  /\ GuiReady
  /\ IF command_list = <<>>
     THEN \* lines 672-674
          /\ msg_box' = "warn_nothing_to_save"
          /\ PresetStep("save_rejected", preset_name, 0)
          /\ UNCHANGED <<command_list, repeat_input, interval_input, presets,
                         presets_file, preset_combo, saved>>
     ELSE IF ~presets_file.exists
     THEN \* open() on line 689 raises; lines 711-713
          /\ msg_box' = "crit_save_failed"
          /\ PresetStep("save_failed", preset_name, 0)
          /\ UNCHANGED <<command_list, repeat_input, interval_input, presets,
                         presets_file, preset_combo, saved>>
     ELSE LET preset == [present |-> TRUE, commands |-> command_list,
                         repeat |-> repeat_input,
                         interval |-> interval_input]
              store == [loads_presets(presets_file)
                          EXCEPT ![preset_name] = preset] IN
          /\ presets_file' =
               [presets_file EXCEPT
                  !.presets = [name \in PresetNames |->
                                 dumps_preset(store[name])]]
          /\ presets' = store
          /\ preset_combo' = ComboAfterSet(store, preset_name)
          /\ SetUi(UiAfterSet(store, preset_name, Ui))
          /\ saved' = [present |-> TRUE, name |-> preset_name,
                       commands |-> command_list, repeat |-> repeat_input,
                       interval |-> interval_input]
          /\ PresetStep("save", preset_name, 0)
          /\ msg_box' = "none"
  /\ UNCHANGED <<host_input, instrument, worker, threads, queue, fg,
                 execute_btn, stop_btn, connect_btn, execution_state,
                 run_edits>>
  /\ UNCHANGED api_vars

\* the user picks item i of preset_combo: currentTextChanged, load_preset
\* (lines 313, 569-588)
SelectPreset(i) ==
  /\ GuiReady
  /\ i \in 1..Len(preset_combo.items)
  /\ i # preset_combo.index
  /\ preset_combo' = [preset_combo EXCEPT !.index = i]
  /\ SetUi(load_preset(preset_combo.items[i], presets, Ui))
  /\ PresetStep("load", preset_combo.items[i], i)
  /\ msg_box' = "none"
  /\ UNCHANGED <<host_input, instrument, worker, threads, queue, fg,
                 execute_btn, stop_btn, connect_btn, execution_state,
                 run_edits>>
  /\ UNCHANGED <<presets, presets_file, saved>>
  /\ UNCHANGED api_vars

\* a file holding one preset, the format load_preset_from_file reads:
\* {"name": ..., "commands": [...], "repeat": ..., "interval": ...}
SinglePresetFile ==
  [name |-> "p", commands |-> <<T_A, T_Q>>, repeat |-> 2, interval |-> 50]

\* load_preset_from_file (lines 601-628) with the file chosen in the dialog:
\* config/presets.json itself, whose only top-level key is "presets", so
\* that every .get() takes its default (lines 614-620), or a file holding
\* one preset
LoadPresetFromFile(own_file) ==
  LET preset_name == IF own_file THEN Unnamed ELSE SinglePresetFile.name
      preset == IF own_file
                THEN [present |-> TRUE, commands |-> <<>>, repeat |-> 1,
                      interval |-> 100]
                ELSE [present |-> TRUE,
                      commands |-> SinglePresetFile.commands,
                      repeat |-> SinglePresetFile.repeat,
                      interval |-> SinglePresetFile.interval]
      store == [presets EXCEPT ![preset_name] = preset] IN
  /\ GuiReady
  /\ own_file => presets_file.exists
  /\ presets' = store
  /\ preset_combo' = ComboAfterSet(store, preset_name)
  /\ SetUi(UiAfterSet(store, preset_name, Ui))
  /\ PresetStep("load_file", preset_name, IF own_file THEN 1 ELSE 0)
  /\ saved' = IF ~own_file /\ saved.name = preset_name THEN NoSave ELSE saved
  /\ msg_box' = "none"
  /\ UNCHANGED <<host_input, instrument, worker, threads, queue, fg,
                 execute_btn, stop_btn, connect_btn, execution_state,
                 run_edits>>
  /\ UNCHANGED presets_file
  /\ UNCHANGED api_vars

\* the program is closed and started again: __init__ and
\* load_default_presets (lines 544-560) on the file as it is
LoadDefaultPresets ==
  LET store == IF presets_file.exists THEN loads_presets(presets_file)
               ELSE NoPresets
      none == \A name \in PresetNames : ~store[name].present IN
  /\ GuiReady
  /\ worker = 0
  /\ ~is_connected
  /\ presets' = store
  /\ preset_combo' = [items |-> ComboItems(store), index |-> 1]
  /\ SetUi(update_preset_combo(store, Ui))
  /\ msg_box' = IF none THEN "warn_presets_not_loaded" ELSE "none"
  /\ PresetStep("restart", "", 0)
  /\ saved' = IF saved.present /\ store[saved.name].present THEN saved
              ELSE NoSave
  /\ UNCHANGED <<host_input, instrument, worker, threads, queue, fg,
                 execute_btn, stop_btn, connect_btn, execution_state,
                 run_edits>>
  /\ UNCHANGED presets_file
  /\ UNCHANGED api_vars

\* config/presets.json is removed outside the program
RemovePresetsFile ==
  /\ presets_file.exists
  /\ presets_file' = MissingFile
  /\ PresetStep("file_removed", "", 0)
  /\ UNCHANGED <<gui_vars, api_vars, interval_input, presets, preset_combo,
                 saved>>

(***************************************************************************)
(* class SCPIInstrument (lines 21-79) called method by method, in any      *)
(* order, on one object dev.  A socket object is "none" (not made yet),    *)
(* "open" (made, not connected), "connected" or "closed".                  *)
(***************************************************************************)
Live == {s \in SockIds : socks[s] \in {"open", "connected"}}

FreshSocks == {s \in SockIds : socks[s] = "none"}

FreshSock == CHOOSE s \in FreshSocks : \A u \in FreshSocks : s <= u

\* the state of the socket self.sock refers to
SockState(d) == IF d.sock = 0 THEN "none" ELSE socks[d.sock]

\* connect() (lines 28-40): self.sock is assigned the new socket on line 31,
\* before settimeout and connect; the except clauses raise SCPIError and
\* leave self.sock as it is
Connect ==
  /\ FreshSocks # {}
  /\ \E out \in ConnectOutcomes :
       /\ dev' = [sock |-> FreshSock]
       /\ socks' = [socks EXCEPT ![FreshSock] =
                      IF out = "ok" THEN "connected" ELSE "open"]
       /\ call' = [NoCall EXCEPT !.op = "connect", !.result = out]
  /\ wire' = NoWire
  /\ UNCHANGED <<gui_vars, preset_vars>>

\* disconnect() (lines 42-46): close, then self.sock = None; when close
\* raises, line 46 is not reached and the error propagates.  Whether the
\* descriptor was released by a close that raised is left open.
Disconnect ==
  /\ IF dev.sock # 0
     THEN \E close_ok \in BOOLEAN :
            IF close_ok
            THEN /\ socks' = [socks EXCEPT ![dev.sock] = "closed"]
                 /\ dev' = [sock |-> 0]
                 /\ wire' = NoWire
                 /\ call' = [NoCall EXCEPT !.op = "disconnect",
                                           !.result = "ok"]
            ELSE /\ \E st \in {socks[dev.sock], "closed"} :
                      socks' = [socks EXCEPT ![dev.sock] = st]
                 /\ dev' = dev
                 /\ wire' = wire
                 /\ call' = [NoCall EXCEPT !.op = "disconnect",
                                           !.result = "error"]
     ELSE /\ call' = [NoCall EXCEPT !.op = "disconnect", !.result = "ok"]
          /\ UNCHANGED <<dev, socks, wire>>
  /\ UNCHANGED <<gui_vars, preset_vars>>

not_connected_never(d) == FALSE

\* line 59: if not self.sock
not_connected(d) == d.sock = 0

\* the peer answers the commands that are queries, in the order received
peer_answers(command) == endswith_q(command)

\* line 70: recv(1024) takes what it returns out of the socket's buffer;
\* nothing else in send_command reads or discards buffered bytes
recv_rest(rx, j) == SubSeq(rx, j + 1, Len(rx))

\* send_command(command) (lines 48-79).  result is the return value ("None",
\* or "R" for response text) or the kind of the SCPIError raised; wrote
\* counts the sendall calls that reached a connected socket.  Between the
\* write and the return of recv the peer answers k of the queries it holds,
\* late answers to earlier ones first; recv returns data when the buffer
\* holds any, the first j buffered replies, and times out when it holds
\* none; reply is the numbers of the replies in the returned text.
SendCommand(command) ==
  /\ IF not_connected(dev)
     THEN /\ call' = [NoCall EXCEPT !.op = "send_command", !.cmd = command,
                                    !.result = "not_connected"]
          /\ wire' = wire
     ELSE IF SockState(dev) # "connected"
     THEN \* sendall raises, caught on line 78
          /\ call' = [NoCall EXCEPT !.op = "send_command", !.cmd = command,
                                    !.result = "error"]
          /\ wire' = wire
     ELSE /\ wire.seq < MaxSends
          /\ \E ok \in BOOLEAN, out \in RecvOutcomes :
               LET n == wire.seq + 1
                   peer1 == IF ok /\ peer_answers(command)
                            THEN Append(wire.peer, n) ELSE wire.peer
                   reads == ok /\ endswith_q(command) IN
               \E k \in 0..Len(peer1) :
                 LET rx1 == wire.rx \o SubSeq(peer1, 1, k)
                     peer2 == SubSeq(peer1, k + 1, Len(peer1)) IN
                 \E j \in 0..Len(rx1) :
                   /\ reads /\ out = "data" => j >= 1
                   /\ reads /\ out = "timeout" => rx1 = <<>>
                   /\ ~(reads /\ out = "data") => j = 0
                   /\ call' = [op |-> "send_command", cmd |-> command,
                               written |-> <<>>, sleeps |-> 0, at |-> 0,
                               tid |-> 0,
                               wrote |-> 1, read |-> reads, seq |-> n,
                               reply |-> IF reads /\ out = "data"
                                         THEN SubSeq(rx1, 1, j) ELSE <<>>,
                               result |->
                                 IF ~ok THEN "error"
                                 ELSE IF ~endswith_q(command) THEN "None"
                                 ELSE IF out = "data" THEN "R"
                                 ELSE IF out = "empty" THEN "None"
                                 ELSE out]
                   /\ wire' = [seq |-> n, peer |-> peer2,
                               rx |-> recv_rest(rx1, j)]
  /\ UNCHANGED <<dev, socks>>
  /\ UNCHANGED <<gui_vars, preset_vars>>

\* a socket object no longer referenced by self.sock is closed by its
\* finalizer, at a time the runtime chooses
Finalize(s) ==
  /\ s \in Live
  /\ dev.sock # s
  /\ socks' = [socks EXCEPT ![s] = "closed"]
  /\ UNCHANGED <<dev, call, wire>>
  /\ UNCHANGED <<gui_vars, preset_vars>>

(***************************************************************************)
(* scpi_backend.SCPIInstrument.send_command_sequence (scpi_backend.py      *)
(* lines 90-115), run to its end on the inputs and the peer behaviour a    *)
(* finished SCPIWorker has met.                                            *)
(***************************************************************************)
\* scpi_backend.py binds socket, time, List, Tuple and Optional (lines 1-3)
\* and nothing named logger, which send_command and disconnect use
logger_bound == FALSE

\* what the peer did to a run: sends 1..fail_at-1 succeeded and send fail_at
\* failed (0: none did), not_connected when no socket was there for it
NoScript == [fail_at |-> 0, not_connected |-> FALSE]

ScriptOf(th) ==
  IF th.ended = "failed"
  THEN [fail_at |-> th.steps + 1, not_connected |-> th.writes = th.steps]
  ELSE NoScript

\* scpi_backend send_command (lines 59-88) as the k-th send of a sequence:
\* SCPIError when not connected (59-60); otherwise logger.info on line 65
\* raises NameError before sendall, the handler of line 86 raises it again
\* on line 87, and it leaves send_command uncaught
backend_send(k, script) ==
  IF script.fail_at = k /\ script.not_connected
  THEN [raised |-> "SCPIError", wrote |-> FALSE]
  ELSE IF ~logger_bound
  THEN [raised |-> "NameError", wrote |-> FALSE]
  ELSE IF script.fail_at = k
  THEN [raised |-> "SCPIError", wrote |-> TRUE]
  ELSE [raised |-> "none", wrote |-> TRUE]

NoSequence == [written |-> <<>>, sleeps |-> 0, raised |-> "none", at |-> 0]

\* the loops of lines 104-114 from loop index loop and position idx on;
\* an exception of send_command ends them: SCPIError is recorded and raised
\* again (112-114), any other passes through
RECURSIVE sequence_from(_, _, _, _, _, _)
sequence_from(commands, repeat, loop, idx, script, acc) ==
  IF ~(loop < repeat /\ Len(commands) > 0) THEN acc
  ELSE LET k == Len(acc.written) + 1
           sent == backend_send(k, script)
           last == idx = Len(commands) IN
       IF sent.raised # "none"
       THEN [acc EXCEPT !.raised = sent.raised, !.at = k,
                        !.written = IF sent.wrote
                                    THEN Append(@, commands[idx]) ELSE @]
       ELSE sequence_from(commands, repeat,
              IF last THEN loop + 1 ELSE loop,
              IF last THEN 1 ELSE idx + 1, script,
              [acc EXCEPT !.written = Append(@, commands[idx]),
                          !.sleeps = IF sleep_after(commands, repeat, loop, idx)
                                     THEN @ + 1 ELSE @])

send_command_sequence(commands, repeat, script) ==
  sequence_from(commands, repeat, 0, 1, script, NoSequence)

\* send_command_sequence called with the commands and the repeat count of
\* worker t, whose run was not stopped, against a peer doing what it did to t
SendCommandSequence(t) ==
  LET th == threads[t]
      res == send_command_sequence(th.commands, th.repeat, ScriptOf(th)) IN
  /\ th.pc = "done"
  /\ th.stop_pc = "none"
  /\ call' = [NoCall EXCEPT !.op = "send_command_sequence",
                            !.result = res.raised, !.written = res.written,
                            !.sleeps = res.sleeps, !.at = res.at,
                            !.tid = t]
  /\ UNCHANGED <<dev, socks, wire>>
  /\ UNCHANGED <<gui_vars, preset_vars>>

(***************************************************************************)
(* Specifications.                                                         *)
(***************************************************************************)
WorkerStepOf(t) ==
  \/ WCheck(t)
  \/ WSend(t)
  \/ WRecv(t)
  \/ WEmitStep(t)
  \/ WEmitProgress(t)
  \/ WSleep(t)
  \/ WFinish(t)

WorkerStep == \E t \in ThreadIds : WorkerStepOf(t)

GuiStep ==
  \/ \E h \in MainHosts : SetHostInput(h)
  \/ ToggleConnection
  \/ \E text \in InputTexts : AddCommand(text)
  \/ \E i \in 1..Len(command_list) : RemoveCommand(i)
  \/ \E r \in 1..MaxRepeat : SetRepeat(r)
  \/ \E p \in Presets : LoadPreset(p)
  \/ \E text \in InputTexts : SendSingleCommand(text)
  \/ SendSingleRecv
  \/ ExecuteCommands
  \/ StopExecution
  \/ HandleCommandResult
  \/ UpdateProgress
  \/ HandleExecutionFinished
  \/ HandleExecutionError

Next == GuiStep \/ WorkerStep

Spec == Init /\ [][Next]_vars

\* the worker thread is scheduled by the operating system and the GUI thread
\* stays inside send_command until recv returns: a thread that can take a
\* step takes it
SpecFair ==
  /\ Spec
  /\ \A t \in ThreadIds : WF_vars(WorkerStepOf(t))
  /\ WF_vars(SendSingleRecv)

\* the GUI with execute_commands also callable while not connected
NextCall == Next \/ ExecuteCommandsCall

SpecCall == Init /\ [][NextCall]_vars

\* SCPIWorker constructed, wired and started as on lines 951-956 by a caller
\* that passes its own arguments instead of the widgets' values
StartWorker(commands, repeat) ==
  /\ GuiReady
  /\ worker = 0
  /\ FreeSlots # {}
  /\ worker' = FreeSlot
  /\ SetThread(FreeSlot, NewThread(commands, repeat))
  /\ UNCHANGED <<host_input, instrument, command_list, repeat_input, queue,
                 fg, execute_btn, stop_btn, connect_btn, execution_state,
                 msg_box, run_edits>>
  /\ UNCHANGED <<api_vars, preset_vars>>

\* SCPIWorker.stop (lines 97-99) called on the running worker
StopWorker ==
  /\ worker # 0
  /\ threads[worker].is_running
  /\ SetThread(worker,
       [threads[worker] EXCEPT
          !.is_running = FALSE,
          !.stop_pc = threads[worker].pc,
          !.stop_steps = threads[worker].steps,
          !.stop_writes = threads[worker].writes,
          !.stop_sleeps = threads[worker].sleeps])
  /\ UNCHANGED <<host_input, instrument, command_list, repeat_input, worker,
                 queue, fg, execute_btn, stop_btn, connect_btn,
                 execution_state, msg_box, run_edits>>
  /\ UNCHANGED <<api_vars, preset_vars>>

WorkerCommands == {<<>>, <<T_A>>, <<T_A, T_Q>>}

WorkerRepeats == -1..(MaxRepeat + 1)

\* class SCPIWorker driven directly, with the GUI's slots as receivers
NextWorker ==
  \/ ToggleConnection
  \/ \E commands \in WorkerCommands, repeat \in WorkerRepeats :
       StartWorker(commands, repeat)
  \/ StopWorker
  \/ WorkerStep
  \/ HandleCommandResult
  \/ UpdateProgress
  \/ HandleExecutionFinished
  \/ HandleExecutionError

\* the program with the lifetime of the worker threads: the return of run(),
\* which no handler waits for or reads, is a step of its own
NextLifetime ==
  \/ Next
  \/ \E t \in ThreadIds : WReturn(t)

SpecLifetime == Init /\ [][NextLifetime]_vars

SpecWorker == Init /\ [][NextWorker]_vars

\* class SCPIWorker and scpi_backend's send_command_sequence side by side
NextBackend ==
  \/ NextWorker
  \/ \E t \in ThreadIds : SendCommandSequence(t)

SpecBackend == Init /\ [][NextBackend]_vars

PresetTexts == {T_A, T_Esc}

SaveNames == {"p", Sentinel}

IntervalValues == {10, 150}

\* the preset handling alone
NextPreset ==
  \/ \E text \in PresetTexts : AddCommand(text)
  \/ \E i \in 1..Len(command_list) : RemoveCommand(i)
  \/ \E v \in IntervalValues : SetInterval(v)
  \/ \E name \in SaveNames : SavePresetToFile(name)
  \/ \E i \in 1..Len(preset_combo.items) : SelectPreset(i)
  \/ \E own_file \in BOOLEAN : LoadPresetFromFile(own_file)
  \/ LoadDefaultPresets
  \/ RemovePresetsFile

SpecPreset == Init /\ [][NextPreset]_vars

\* the connection handling alone, over the generated host texts
NextConnect ==
  \/ \E h \in HostTexts : SetHostInput(h)
  \/ ToggleConnection

SpecConnect == Init /\ [][NextConnect]_vars

\* class SCPIInstrument alone, its methods called in any order
NextInstrument ==
  \/ Connect
  \/ Disconnect
  \/ \E command \in {T_A, T_Q, T_Qsp} : SendCommand(command)
  \/ \E s \in SockIds : Finalize(s)

SpecInstrument == Init /\ [][NextInstrument]_vars

(***************************************************************************)
(* Properties.                                                             *)
(***************************************************************************)
Started(th) == th.pc # "none"

\* a run that has been started and has not reached a terminal state
Active(th) == th.pc \notin {"none", "done"}

ActiveThreads == {t \in ThreadIds : Active(threads[t])}

NoThreadStarted ==
  \A t \in ThreadIds : ~Active(threads[t]) => ~Active(threads'[t])

\* C1: a run over n >= 1 commands with repeat r >= 1 in which every send
\* succeeds and no stop is requested ends Completed, having emitted exactly
\* r*n StepResults and, last, Progress (r*n, r*n).
C1_SuccessfulRunCounts ==
  \A t \in ThreadIds :
    LET th == threads[t]
        rn == th.repeat * Len(th.commands) IN
    (/\ th.pc = "done" /\ th.is_running /\ th.ended # "failed"
     /\ Len(th.commands) >= 1 /\ th.repeat >= 1)
    => /\ th.ended = "completed"
       /\ th.steps = rn
       /\ th.progress = <<rn, rn>>
       /\ queue # <<>> /\ queue[Len(queue)].sig = "finished"

C1_Witness ==
  \E t \in ThreadIds :
    /\ threads[t].pc = "done" /\ threads[t].is_running
    /\ threads[t].ended = "completed"
    /\ threads[t].repeat = 2 /\ Len(threads[t].commands) = 2
    /\ threads[t].steps = 4 /\ threads[t].progress = <<4, 4>>

\* C2: a fully successful run over n commands with repeat r performs exactly
\* r*n - 1 interval sleeps, also when a command text occurs more than once.
C2_SleepCount ==
  \A t \in ThreadIds :
    LET th == threads[t] IN
    (th.pc = "done" /\ th.ended = "completed"
       /\ th.repeat * Len(th.commands) >= 1)
    => th.sleeps = th.repeat * Len(th.commands) - 1

\* C3: while the session is connected and a run is active, the GUI thread
\* never writes a command of send_single_command to the socket; in particular
\* it never comes to wait for the response of a query of its own.
C3_NoForegroundSendWhileRunning ==
  [][(is_connected /\ ActiveThreads # {})
       => ~(fg.pc = "idle" /\ fg'.pc = "recv")]_vars

\* C4 as stated: a stop requested when k StepResults have been emitted and
\* the (k+1)-th command is not yet written leaves the run with exactly k
\* StepResults and no socket write after the request.
C4_StopBeforeWrite ==
  \A t \in ThreadIds :
    LET th == threads[t] IN
    (th.pc = "done" /\ th.ended # "failed"
       /\ th.stop_pc # "none" /\ th.stop_writes = th.stop_steps)
    => (th.steps = th.stop_steps /\ th.writes = th.stop_writes)

\* C4 amended: a stop requested when k StepResults have been emitted and the
\* worker has not yet polled the flag for the (k+1)-th command leaves the run
\* with exactly k StepResults and no socket write after the request.
C4_StopBeforePoll ==
  \A t \in ThreadIds :
    LET th == threads[t] IN
    (th.pc = "done"
       /\ th.stop_pc \in {"emit_progress", "sleep", "check", "finish", "done"})
    => (th.steps = th.stop_steps /\ th.writes = th.stop_writes)

C4_Witness ==
  \E t \in ThreadIds :
    /\ threads[t].pc = "done" /\ threads[t].ended = "stopped"
    /\ threads[t].stop_pc = "sleep" /\ threads[t].stop_steps = 1
    /\ threads[t].steps = 1 /\ threads[t].writes = 1
    /\ threads[t].total_commands = 4

\* C5: the terminal notification of a run that ended because a stop request
\* was honoured differs from the one of a run that executed all its commands.
C5_StoppedDistinctFromCompleted ==
  \A t \in ThreadIds :
    (threads[t].pc = "done" /\ threads[t].ended = "stopped" /\ queue # <<>>)
    => queue[Len(queue)].sig # "finished"

\* C6: send attempts a response read exactly when the command text with
\* trailing whitespace removed ends in '?'.
C6_QueryIffTrimmedEndsWithQuestionMark ==
  \A t \in ThreadIds :
    threads[t].pc = "emit_step"
    => (threads[t].did_read <=> endswith_q(rstrip(CurCmd(threads[t]))))

\* a decimal numeral of value 0..255, by positional value
RECURSIVE PlaceSum(_, _)
PlaceSum(p, i) ==
  IF i > Len(p) THEN 0
  ELSE DigitVal(p[i]) * 10 ^ (Len(p) - i) + PlaceSum(p, i + 1)

Octet(p) ==
  /\ Len(p) >= 1
  /\ \A i \in 1..Len(p) : p[i] \in Digits
  /\ PlaceSum(p, 1) \in 0..255

\* four dot-separated decimal integers each in 0..255
DottedQuad(h) ==
  \E i, j, k \in 1..Len(h) :
    /\ i < j /\ j < k
    /\ h[i] = "." /\ h[j] = "." /\ h[k] = "."
    /\ Octet(SubSeq(h, 1, i - 1))
    /\ Octet(SubSeq(h, i + 1, j - 1))
    /\ Octet(SubSeq(h, j + 1, k - 1))
    /\ Octet(SubSeq(h, k + 1, Len(h)))

\* C7: connect with a host that is not a dotted quad is rejected by the
\* validation, before the socket connect, and leaves the session
\* disconnected; a dotted quad passes the validation and reaches the connect.
C7_HostValidatedBeforeConnect ==
  /\ msg_box = "warn_bad_ip" => (~DottedQuad(host_input) /\ ~is_connected)
  /\ (is_connected \/ msg_box = "crit_connect_error") => DottedQuad(host_input)
  /\ ~DottedQuad(host_input) => ~instrument.present

C7_Witness ==
  /\ host_input = H_999_1_1_1
  /\ msg_box = "warn_bad_ip"
  /\ ~is_connected

\* C8: no run is started while another has not reached its terminal state:
\* at most one worker is active, and while one is the execute button that
\* delivers runSequence is disabled.
C8_AtMostOneActiveWorker ==
  /\ Cardinality(ActiveThreads) <= 1
  /\ ActiveThreads # {} => ~execute_btn

C8_Witness ==
  \E t \in ThreadIds :
    /\ Active(threads[t]) /\ worker = t
    /\ threads[t].pc = "recv"
    /\ is_connected /\ ~execute_btn
    /\ command_list # <<>>

RejectionShown ==
  /\ msg_box' \in {"warn_not_connected", "warn_no_commands"}
  /\ msg_box' # msg_box

\* C9: runSequence while not connected or with an empty command list starts
\* no worker, and the step that shows its warning changes nothing else: no
\* notification is queued or delivered, no thread is created or advanced.
C9_RejectedWhenDisconnectedOrEmpty ==
  [][/\ (~is_connected \/ command_list = <<>>) => NoThreadStarted
     /\ RejectionShown =>
          UNCHANGED <<host_input, instrument, command_list, repeat_input,
                      worker, threads, queue, fg, execute_btn, stop_btn,
                      connect_btn, execution_state, run_edits>>]_vars

C9_Witness ==
  /\ msg_box = "warn_not_connected"
  /\ ~is_connected
  /\ command_list # <<>>
  /\ ActiveThreads = {} /\ queue = <<>>

\* C10 as stated: runSequence with no commands goes directly to Completed.
C10_EmptyRunCompletes ==
  msg_box = "warn_no_commands"
    => \/ execution_state = "completed"
       \/ queue # <<>> /\ queue[Len(queue)].sig = "finished"

\* C10 amended: runSequence with no commands emits no StepResult, writes
\* nothing and creates no run: every worker ever started has at least one
\* command, and after the rejection the execution state is not Completed
\* unless it was before.
C10_EmptyRunRejected ==
  [][/\ \A t \in ThreadIds :
          Started(threads'[t]) => Len(threads'[t].commands) >= 1
     /\ (is_connected /\ command_list = <<>> /\ RejectionShown)
          => /\ msg_box' = "warn_no_commands"
             /\ UNCHANGED <<threads, queue, worker, execution_state,
                            execute_btn, stop_btn, connect_btn>>]_vars

C10_Witness ==
  /\ msg_box = "warn_no_commands"
  /\ is_connected /\ command_list = <<>>
  /\ execution_state = "idle"
  /\ ActiveThreads = {} /\ queue = <<>>

TerminalSigs == {"finished", "error_occurred"}

TerminalCount(q) ==
  Cardinality({i \in 1..Len(q) : q[i].sig \in TerminalSigs})

\* C11: when a command of a run fails (timeout or other transport error) the
\* worker is at its end at once: no StepResult or Progress exists for the
\* failed or a later command, the one terminal notification is Failed and it
\* is the last notification, and from then on the run writes nothing and
\* emits nothing.
C11_FailFast ==
  [][\A t \in ThreadIds :
       LET th == threads'[t]
           n == Len(th.commands) IN
       /\ th.ended = "failed" =>
            /\ th.pc = "done"
            /\ th.steps = th.loop * n + th.idx - 1
            /\ th.commands_executed = th.steps
            /\ th.progress = IF th.steps = 0 THEN <<0, 0>>
                              ELSE <<th.steps, th.total_commands>>
            /\ th.writes <= th.steps + 1
            /\ queue' # <<>>
            /\ queue'[Len(queue')].sig = "error_occurred"
            /\ TerminalCount(queue') = 1
       /\ threads[t].ended = "failed" =>
            /\ queue' \in {queue, Tail(queue)}
            /\ \/ th = NoThread
               \/ /\ th.pc = "done" /\ th.ended = "failed"
                  /\ th.steps = threads[t].steps
                  /\ th.writes = threads[t].writes
                  /\ th.progress = threads[t].progress]_vars

C11_Witness ==
  \E t \in ThreadIds :
    /\ threads[t].ended = "failed" /\ threads[t].pc = "done"
    /\ threads[t].recv_out = "timeout"
    /\ threads[t].total_commands = 4
    /\ threads[t].steps = 1 /\ threads[t].writes = 2
    /\ queue[Len(queue)].sig = "error_occurred"

\* C12: send_command on an object whose self.sock is None fails with the
\* not-connected error, writes nothing, attempts no read, and leaves the
\* object and every socket as they were.
C12_SendWithoutSocket ==
  [][(dev.sock = 0 /\ call'.op = "send_command" /\ call' # call)
       => /\ call'.result = "not_connected"
          /\ call'.wrote = 0 /\ ~call'.read
          /\ dev' = dev /\ socks' = socks]_vars

C12_Witness ==
  /\ call.op = "send_command" /\ call.result = "not_connected"
  /\ call.cmd = T_Q
  /\ dev.sock = 0
  /\ \E s \in SockIds : socks[s] = "closed"

\* C13: the socket handle is present exactly when the session is connected;
\* in particular after connect() has failed the handle is absent.
C13_HandleIffConnected ==
  /\ dev.sock # 0 <=> SockState(dev) = "connected"
  /\ (call.op = "connect" /\ call.result # "ok") => dev.sock = 0

C15_DisconnectAlwaysSucceeds ==
  [][(call'.op = "disconnect" /\ call' # call)
       => /\ call'.result = "ok"
          /\ dev'.sock = 0
          /\ dev.sock = 0 => (dev' = dev /\ socks' = socks)]_vars

\* C19: when the socket connect succeeds and the *IDN? probe fails, no error
\* escapes the connect operation: toggle_connection ends normally, connected
\* and with the execute button enabled.
C19_ProbeFailureNonFatal ==
  msg_box # "uncaught_UnboundLocalError"

\* C20: the GUI thread is never suspended in a socket read waiting for the
\* peer.
C20_ForegroundNeverBlocks ==
  fg.pc # "recv"

\* C16: for a command that is not a query send only writes, and the response
\* reported in its StepResult is an acknowledgement that differs from the
\* marker reported for a query that received nothing.
C16_NonQueryAcknowledged ==
  /\ \A t \in ThreadIds :
       (threads[t].pc = "emit_step" /\ ~endswith_q(CurCmd(threads[t])))
       => ~threads[t].did_read
  /\ \A i \in 1..Len(queue) :
       (queue[i].sig = "command_sent" /\ ~endswith_q(queue[i].cmd))
       => queue[i].response # step_response("None")

\* C17: a query whose read returns zero bytes does not fail: send returns
\* None, the step is reported with the no-response marker and the run goes
\* on; a read that times out fails the send with the timeout error naming
\* the command.
C17_EmptyResponseAndTimeout ==
  [][\A t \in ThreadIds :
       LET th == threads[t]
           th2 == threads'[t] IN
       /\ (th.pc = "recv" /\ th2.pc # "recv") =>
            /\ th2.recv_out \in RecvOutcomes
            /\ th2.recv_out = "empty" =>
                 /\ th2.pc = "emit_step" /\ th2.ended = "none"
                 /\ th2.response = "None"
                 /\ queue' = queue
            /\ th2.recv_out = "timeout" =>
                 /\ th2.pc = "done" /\ th2.ended = "failed"
                 /\ queue' = Append(queue, ErrorEvent("timeout", CurCmd(th)))
                 /\ CurCmd(th) # <<>>
       /\ (th.pc = "emit_step" /\ th.recv_out = "empty"
             /\ th2.pc # "emit_step") =>
            /\ th2.pc = "emit_progress"
            /\ queue'[Len(queue')].sig = "command_sent"
            /\ queue'[Len(queue')].response = "No response"]_vars

C17_Witness ==
  \E t \in ThreadIds :
    /\ threads[t].recv_out = "empty"
    /\ threads[t].pc = "send" /\ threads[t].loop = 1
    /\ threads[t].steps = 2 /\ threads[t].ended = "none"
    /\ \E i \in 1..Len(queue) :
         queue[i].cmd = T_Q /\ queue[i].response = "No response"

\* C18: a send that fails leaves the connection as it was, in a sequence run
\* (the failing step of the worker and the handling of its Failed
\* notification) and in send_single_command; the handle is removed only by
\* the disconnect of toggle_connection, a step of the idle GUI thread that
\* handles no notification and moves no worker.
C18_FailedSendKeepsConnection ==
  [][/\ \A t \in ThreadIds :
          (threads'[t].ended = "failed" /\ threads[t].ended # "failed")
          => instrument' = instrument
     /\ (Pending("error_occurred") /\ queue' = Tail(queue))
          => instrument' = instrument
     /\ fg' # fg => instrument' = instrument
     /\ (is_connected /\ instrument' # instrument)
          => /\ fg.pc = "idle" /\ connect_btn
             /\ queue' = queue /\ threads' = threads]_vars

C18_Witness ==
  /\ execution_state = "error" /\ msg_box = "crit_exec_error"
  /\ worker = 0 /\ queue = <<>>
  /\ is_connected

\* C22: a run delivers exactly one terminal notification and is final from
\* then on: once the worker has emitted it the run writes nothing, sleeps no
\* more and emits nothing (the queue only shrinks), a stop request made then
\* changes none of this, and the delivery of the terminal notification
\* leaves no notification of the run behind.
C22_TerminalOnceAndFinal ==
  [][/\ TerminalCount(queue') <= 1
     /\ \A i \in 1..Len(queue') :
          queue'[i].sig \in TerminalSigs => i = Len(queue')
     /\ \A t \in ThreadIds :
          LET th == threads[t]
              th2 == threads'[t] IN
          /\ th2.pc = "done" => TerminalCount(queue') = 1
          /\ th.pc = "done" =>
               /\ queue' \in {queue, Tail(queue)}
               /\ \/ th2 = NoThread
                  \/ /\ th2.pc = "done" /\ th2.ended = th.ended
                     /\ th2.steps = th.steps /\ th2.writes = th.writes
                     /\ th2.sleeps = th.sleeps
                     /\ th2.progress = th.progress
     /\ (queue # <<>> /\ Head(queue).sig \in TerminalSigs
           /\ queue' = Tail(queue))
          => (queue' = <<>> /\ worker' = 0 /\ ActiveThreads' = {})]_vars

C22_Witness ==
  \E t \in ThreadIds :
    /\ threads[t].pc = "done" /\ threads[t].ended = "completed"
    /\ threads[t].stop_pc = "done" /\ ~threads[t].is_running
    /\ threads[t].steps = threads[t].total_commands
    /\ threads[t].total_commands = 4

\* C23: the k-th command written and the k-th step result of a run carry
\* the command at position ((k-1) mod n)+1 of the run's list, and the step
\* result carries the loop number ((k-1) div n)+1, also when repeat is 1.
C23_OrderAndLoopNumber ==
  [][\A t \in ThreadIds :
       LET th == threads[t]
           th2 == threads'[t]
           n == Len(th.commands) IN
       /\ th2.writes = th.writes + 1 =>
            th2.last_written = th.commands[((th2.writes - 1) % n) + 1]
       /\ th2.steps = th.steps + 1 =>
            /\ queue' = Append(queue, queue'[Len(queue')])
            /\ queue'[Len(queue')].sig = "command_sent"
            /\ queue'[Len(queue')].cmd =
                 th.commands[((th2.steps - 1) % n) + 1]
            /\ queue'[Len(queue')].loop_num = ((th2.steps - 1) \div n) + 1
            /\ th2.writes = th2.steps]_vars

C23_Witness ==
  \E t \in ThreadIds :
    /\ threads[t].repeat = 2 /\ Len(threads[t].commands) = 2
    /\ threads[t].steps = 3 /\ threads[t].pc = "emit_progress"
    /\ queue # <<>>
    /\ queue[Len(queue)].sig = "command_sent"
    /\ queue[Len(queue)].loop_num = 2
    /\ queue[Len(queue)].cmd = threads[t].commands[1]
    /\ threads[t].last_written = threads[t].commands[1]

\* C24: notifications reach the foreground in emission order: in the queue
\* a step result is followed by its progress notification, a progress
\* notification by the next step result or by the terminal notification,
\* successive progress counts differ by one and end at the worker's count,
\* the terminal notification is last, and the foreground takes the head
\* while the worker adds at the end.
C24_Fifo ==
  \/ queue' = queue
  \/ queue # <<>> /\ queue' = Tail(queue)
  \/ queue' # <<>> /\ queue' = Append(queue, queue'[Len(queue')])

C24_InOrder ==
  [][/\ C24_Fifo
     /\ \A i \in 1..Len(queue') :
          LET e == queue'[i] IN
          /\ e.sig = "command_sent" =>
               (i < Len(queue') => queue'[i + 1].sig = "progress_updated")
          /\ e.sig = "progress_updated" =>
               /\ e.current >= 1
               /\ i > 1 => queue'[i - 1].sig = "command_sent"
               /\ i > 2 => /\ queue'[i - 2].sig = "progress_updated"
                           /\ queue'[i - 2].current = e.current - 1
               /\ i < Len(queue') =>
                    queue'[i + 1].sig \in {"command_sent"} \cup TerminalSigs
          /\ e.sig \in TerminalSigs => i = Len(queue')
     /\ \A t \in ThreadIds :
          LET th == threads[t]
              th2 == threads'[t] IN
          th2.commands_executed # th.commands_executed /\ th2 # NoThread =>
            /\ th2.commands_executed = th.commands_executed + 1
            /\ th2.commands_executed = th2.steps
            /\ queue'[Len(queue')].sig = "progress_updated"
            /\ queue'[Len(queue')].current = th2.commands_executed
            /\ queue'[Len(queue')].total = th2.total_commands]_vars

C24_Witness ==
  /\ Len(queue) >= 5
  /\ queue[1].sig = "command_sent"
  /\ queue[2].sig = "progress_updated" /\ queue[2].current = 1
  /\ queue[4].sig = "progress_updated" /\ queue[4].current = 2
  /\ queue[Len(queue)].sig = "finished"

\* C27: a stop request has a bounded effect: after it the run writes at
\* most one further command, and only when the request came after the poll
\* of that iteration, and sleeps at most once more.
C27_StopBounded ==
  \A t \in ThreadIds :
    threads[t].stop_pc # "none" =>
      /\ threads[t].writes - threads[t].stop_writes <= 1
      /\ threads[t].sleeps - threads[t].stop_sleeps <= 1
      /\ threads[t].writes > threads[t].stop_writes
           => threads[t].stop_pc = "send"

C27_Witness ==
  \E t \in ThreadIds :
    /\ threads[t].pc = "done" /\ threads[t].ended = "stopped"
    /\ threads[t].writes = threads[t].stop_writes + 1
    /\ threads[t].sleeps = threads[t].stop_sleeps + 1

\* C25: a run works on the values captured when it started: the worker is
\* built from the list and the repeat count of that moment, and no edit of
\* the list or of the repeat count during the run changes the commands
\* written, their order or the total reported by progress notifications.
C25_Snapshot ==
  [][\A t \in ThreadIds :
       LET th == threads[t]
           th2 == threads'[t] IN
       /\ (th = NoThread /\ th2 # NoThread) =>
            /\ th2.commands = command_list
            /\ th2.repeat = repeat_input
            /\ th2.total_commands = Len(command_list) * repeat_input
       /\ (th # NoThread /\ th2 # NoThread) =>
            /\ th2.commands = th.commands
            /\ th2.repeat = th.repeat
            /\ th2.total_commands = th.total_commands
       /\ th2.writes = th.writes + 1 =>
            th2.last_written = th.commands[th.idx]
       /\ th2.commands_executed = th.commands_executed + 1 =>
            /\ queue' # <<>>
            /\ queue'[Len(queue')].total =
                 Len(th.commands) * th.repeat]_vars

C25_Witness ==
  \E t \in ThreadIds :
    /\ threads[t].pc = "emit_progress" /\ threads[t].idx = 2
    /\ threads[t].last_written = threads[t].commands[2]
    /\ run_edits >= 1
    /\ Len(command_list) < 2
    /\ repeat_input # threads[t].repeat

\* C28: cancellation leaves the connection alone: no step taken while a run
\* is in progress, the stop request included, closes or replaces the
\* session's socket, and when the terminal notification of a cancelled run
\* is delivered the session is connected on the same socket and a new run
\* or a single send is accepted again.
C28_StopKeepsConnection ==
  [][/\ worker # 0 => (instrument' = instrument /\ is_connected)
     /\ (/\ worker # 0
         /\ threads[worker].ended = "stopped"
         /\ queue # <<>> /\ Head(queue).sig = "finished"
         /\ queue' = Tail(queue))
        => /\ is_connected'
           /\ instrument'.sock = instrument.sock
           /\ worker' = 0
           /\ execute_btn'
           /\ connect_btn'
           /\ execute_reject(instrument', <<T_A>>) = "none"]_vars

C28_Witness ==
  /\ worker # 0
  /\ threads[worker].ended = "stopped"
  /\ threads[worker].stop_pc = "recv"
  /\ threads[worker].stop_writes >= 1
  /\ queue # <<>> /\ Head(queue).sig = "finished"
  /\ is_connected
  /\ ~execute_btn

\* C29: every started run reaches a terminal state and every single send
\* returns, whatever the peer does, when the worker thread and the
\* foreground's blocking call are scheduled fairly.
C29_RunsAndSendsTerminate ==
  /\ \A t \in ThreadIds : Active(threads[t]) ~> ~Active(threads[t])
  /\ (fg.pc # "idle") ~> (fg.pc = "idle")

C29_Witness ==
  /\ fg.pc = "recv"
  /\ \E t \in ThreadIds :
       /\ threads[t].pc = "recv" /\ threads[t].steps >= 1
       /\ ~threads[t].is_running

C30_ReplyMatchesQuery ==
  (call.op = "send_command" /\ call.result = "R")
    => call.reply = <<call.seq>>

\* C21: saving the current sequence as a preset and loading that preset
\* again, by picking its item in the preset list or by loading the file it
\* was saved to, leaves the widgets with the command list, repeat count and
\* interval that were saved.
C21_RoundTrip ==
  [][(/\ preset_op'.n # preset_op.n
      /\ saved'.present
      /\ \/ preset_op'.op = "load" /\ preset_op'.item > 1
            /\ preset_op'.name = saved'.name
         \/ preset_op'.op = "load_file" /\ preset_op'.item = 1)
     => /\ command_list' = saved'.commands
        /\ repeat_input' = saved'.repeat
        /\ interval_input' = saved'.interval]_vars

\* C31: while a run is active the foreground can neither disconnect nor
\* reconnect: the connect button is disabled, the session is connected, and
\* no step changes the session's instrument or its socket, so the socket the
\* worker was started with stays the session's current one.
C31_ActiveRunKeepsSocket ==
  [][(\E t \in ThreadIds : Active(threads[t]))
       => /\ ~connect_btn
          /\ is_connected
          /\ instrument.sock # 0
          /\ instrument' = instrument]_vars

C31_Witness ==
  \E t \in ThreadIds :
    /\ threads[t].pc = "recv"
    /\ threads[t].writes >= 2
    /\ ~threads[t].is_running
    /\ fg.pc = "recv"
    /\ ~connect_btn
    /\ is_connected

\* C32: in every state of a run 0 <= executed <= total = n*r; the step
\* results emitted number executed, or executed + 1 between a step result
\* and its progress notification; the commands written number the step
\* results emitted, or one more while the written command awaits its reply
\* or its step result or after its send failed; so every command whose send
\* returned yields one step result, also when a stop arrived meanwhile.
C32_Counters ==
  \A t \in ThreadIds :
    LET th == threads[t] IN
    Started(th) =>
      /\ 0 <= th.commands_executed
      /\ th.commands_executed <= th.total_commands
      /\ th.total_commands = Len(th.commands) * th.repeat
      /\ th.steps \in {th.commands_executed, th.commands_executed + 1}
      /\ th.steps = th.commands_executed + 1 <=> th.pc = "emit_progress"
      /\ th.steps <= th.writes
      /\ th.writes <= th.steps + 1
      /\ th.writes = th.steps + 1 =>
           (th.pc \in {"recv", "emit_step"} \/ th.ended = "failed")

C32_Witness ==
  \E t \in ThreadIds :
    /\ threads[t].ended = "stopped"
    /\ threads[t].stop_pc = "recv"
    /\ threads[t].steps = threads[t].stop_steps + 1
    /\ threads[t].writes = threads[t].steps
    /\ threads[t].commands_executed = threads[t].steps
    /\ threads[t].commands_executed < threads[t].total_commands

\* C33: the worker object is never released while its thread is still
\* executing: whenever the foreground drops its reference to a worker, the
\* worker's thread has already returned.
C33_ReleasedAfterReturn ==
  [][\A t \in ThreadIds :
       (threads[t] # NoThread /\ threads'[t] = NoThread)
         => ~threads[t].running]_vars

\* the commands a worker has written, in order
WrittenBy(th) ==
  [k \in 1..th.writes |-> th.commands[((k - 1) % Len(th.commands)) + 1]]

\* C34: the two sequencers agree: on the same command list and repeat count,
\* against the same peer and with no stop requested, send_command_sequence
\* writes the commands SCPIWorker.run wrote, in the same order, sleeps as
\* often, and ends with an error at the same send exactly when the run
\* failed.
C34_SequencersAgree ==
  [][(call'.op = "send_command_sequence" /\ call' # call) =>
       LET th == threads[call'.tid] IN
       /\ call'.written = WrittenBy(th)
       /\ call'.sleeps = th.sleeps
       /\ (call'.result # "none") <=> (th.ended = "failed")
       /\ th.ended = "failed" => call'.at = th.steps + 1]_vars

====
